---- MODULE Spec2Model ----
(***************************************************************************)
(* Verification model of tockloader-rs: the bootloader escape codec, the   *)
(* attribute decoder, the serial bootloader interface (ping, sync,         *)
(* get_attribute, enter_bootloader) over a serial transport, and the       *)
(* conversions and accessors of the TBF header and footer types.           *)
(***************************************************************************)
EXTENDS Naturals, Integers, Sequences, FiniteSets, TLC

VARIABLES
    stream,     \* SerialInterface.stream: "None" | "Some"
    baud,       \* baud rate the serial port is set to (0: no port yet)
    dtr,        \* data-terminal-ready line of the port
    rts,        \* request-to-send line of the port
    op,         \* the BootloaderInterface method in progress / last called
    pc,         \* position inside the method ("done": it has returned)
    probe,      \* enter_bootloader: number of the probe in progress (0..2)
    index,      \* get_attribute: the index argument
    calls,      \* number of methods called so far
    tx,         \* frames put on the wire by the current call, in order
    ops,        \* transport operations of the current call, in order
    saved,      \* port settings when the current call started
    inflight,   \* chunks the device has sent that have not reached the host
    rx,         \* bytes that reached the host and were not read yet
    rx_late,    \* how many bytes of rx answer an exchange that timed out
    frame,      \* frame handed over by channel.next() in the current exchange
    frame_late, \* how many bytes of frame answer an exchange that timed out
    wait,       \* how the last exchange of the current call ended
    quiet,      \* every exchange of the current call was sent and timed out
    ping_res,   \* Result of the last ping() (before bootloader_open maps it)
    result,     \* value returned by the last method (or by parse_raw)
    input,      \* argument of the pure function under check
    output,     \* value computed by the pure function under check
    stage       \* which pure function has been applied

vars == <<stream, baud, dtr, rts, op, pc, probe, index, calls, tx, ops, saved,
          inflight, rx, rx_late, frame, frame_late, wait, quiet, ping_res,
          result, input, output, stage>>

machine_vars == <<stream, baud, dtr, rts, op, pc, probe, index, calls, tx, ops,
                  saved, inflight, rx, rx_late, frame, frame_late, wait, quiet,
                  ping_res>>

pure_vars == <<input, output, stage>>

----------------------------------------------------------------------------
(* Protocol constants: bootloader/codes.rs *)

ESCAPE_CHAR == 252

COMMAND_PING == 1

COMMAND_RESET == 5

COMMAND_GET_ATTRIBUTE == 20

RESPONSE_OVERFLOW == 16

RESPONSE_PONG == 17

RESPONSE_GET_ATTRIBUTE == 34

----------------------------------------------------------------------------
(* Bounds of the model *)

\* longest byte sequence given to escape / deescape
MaxLen == 4

\* longest key (before NUL padding) and longest value of a generated response
MaxKeyLen == 2

MaxValLen == 2

\* number of interface methods called in one behaviour
MaxCalls == 2

\* number of responses the device may have in flight towards the host
MaxInflight == 1

\* number of methods called in one behaviour checked for termination
MaxLiveCalls == 1

----------------------------------------------------------------------------
(* Results: Result<bool|()|Attribute, TockloaderError>, or a panic *)

NoBytes == <<>>

Mk(k, b, e, key, value) ==
    [kind |-> k, b |-> b, err |-> e, key |-> key, value |-> value]

NoResult == Mk("None", FALSE, "", NoBytes, NoBytes)

OkBool(b) == Mk("OkBool", b, "", NoBytes, NoBytes)

OkUnit == Mk("OkUnit", FALSE, "", NoBytes, NoBytes)

OkAttr(key, value) == Mk("OkAttr", FALSE, "", key, value)

Err(e) == Mk("Err", FALSE, e, NoBytes, NoBytes)

Panic == Mk("Panic", FALSE, "", NoBytes, NoBytes)

----------------------------------------------------------------------------
(* Escape codec: bootloader/codes.rs *)

RECURSIVE escape(_)
escape(source) ==
    IF source = <<>> THEN <<>>
    ELSE LET byte == Head(source)
         IN  (IF byte = ESCAPE_CHAR THEN <<byte, ESCAPE_CHAR>> ELSE <<byte>>)
             \o escape(Tail(source))

\* the loop `for i in 1..source.len()` of deescape, from 0-based index i on
\* (source[i] of the code is source[i + 1] here)
RECURSIVE deescape_from(_, _)
deescape_from(source, i) ==
    IF i >= Len(source) THEN <<>>
    ELSE (IF source[i + 1] = ESCAPE_CHAR /\ source[i] = ESCAPE_CHAR
          THEN <<>>
          ELSE <<source[i + 1]>>)
         \o deescape_from(source, i + 1)

\* a deescape that forgets the first byte
deescape_without_first(source) == deescape_from(source, 1)

deescape(source) ==
    (IF source # <<>> THEN <<source[1]>> ELSE <<>>) \o deescape_from(source, 1)

----------------------------------------------------------------------------
(* Attribute decoder: bootloader/attribute.rs *)

\* .filter(|byte| *byte != 0)
StripNul(bytes) == SelectSeq(bytes, LAMBDA byte : byte # 0)

IsCont(b) == b >= 128 /\ b <= 191

\* str::from_utf8(..).is_ok(): well-formed UTF-8 byte sequences
RECURSIVE ValidUtf8(_)
ValidUtf8(s) ==
    IF \A i \in 1..Len(s) : s[i] < 128 THEN TRUE
    ELSE LET b == s[1]
             n == Len(s)
             rest(k) == SubSeq(s, k + 1, n)
         IN  IF b < 128 THEN ValidUtf8(rest(1))
             ELSE IF b >= 194 /\ b <= 223
                  THEN n >= 2 /\ IsCont(s[2]) /\ ValidUtf8(rest(2))
             ELSE IF b >= 224 /\ b <= 239
                  THEN /\ n >= 3
                       /\ IsCont(s[2]) /\ IsCont(s[3])
                       /\ (b = 224 => s[2] >= 160)
                       /\ (b = 237 => s[2] <= 159)
                       /\ ValidUtf8(rest(3))
             ELSE IF b >= 240 /\ b <= 244
                  THEN /\ n >= 4
                       /\ IsCont(s[2]) /\ IsCont(s[3]) /\ IsCont(s[4])
                       /\ (b = 240 => s[2] >= 144)
                       /\ (b = 244 => s[2] <= 143)
                       /\ ValidUtf8(rest(4))
             ELSE FALSE

\* a response code every second byte passes
response_code_unchecked(b) == TRUE

\* bytes[1] != RESPONSE_GET_ATTRIBUTE
response_code_ok(b) == b = RESPONSE_GET_ATTRIBUTE

\* a key that keeps its NUL padding
key_bytes_unfiltered(bytes) == SubSeq(bytes, 3, 10)

\* bytes[2..10] without its NUL bytes
key_bytes(bytes) == StripNul(SubSeq(bytes, 3, 10))

\* bytes[11..(11 + len as usize)] without its NUL bytes
val_bytes(bytes, len) == StripNul(SubSeq(bytes, 12, 11 + len))

\* Attribute::parse_raw. Indexing past the end of the vector (bytes[0],
\* bytes[1], bytes[2..10], bytes[10], bytes[11..11 + len]) panics.
parse_raw(bytes) ==
    IF Len(bytes) < 1 THEN Panic
    ELSE IF bytes[1] # ESCAPE_CHAR THEN Err("MalformedResponse")
    ELSE IF Len(bytes) < 2 THEN Panic
    ELSE IF ~response_code_ok(bytes[2]) THEN Err("MalformedResponse")
    ELSE IF Len(bytes) < 10 THEN Panic
    ELSE IF ~ValidUtf8(key_bytes(bytes)) THEN Err("MalformedResponse")
    ELSE IF Len(bytes) < 11 THEN Panic
    ELSE LET len == bytes[11]
         IN  IF Len(bytes) < 11 + len THEN Panic
             ELSE IF ~ValidUtf8(val_bytes(bytes, len))
                  THEN Err("MalformedResponse")
                  ELSE OkAttr(key_bytes(bytes), val_bytes(bytes, len))

----------------------------------------------------------------------------
(* The serial transport and the device behind it *)

\* --baud-rate default of the command line (SerialInterface.baud_rate)
baud_rate == 115200

E(o, a) == [op |-> o, arg |-> a]

Port == [stream |-> stream, baud |-> baud, dtr |-> dtr, rts |-> rts]

Pong == <<ESCAPE_CHAR, RESPONSE_PONG>>

\* a response with an opcode that is neither PONG nor GET_ATTRIBUTE
BadCode == <<ESCAPE_CHAR, RESPONSE_OVERFLOW>>

\* key "A" padded with NUL to 8 bytes, value "v"
AttrReply == <<ESCAPE_CHAR, RESPONSE_GET_ATTRIBUTE, 65, 0, 0, 0, 0, 0, 0, 0, 1, 118>>

\* What the device may send after a request, as the chunks that reach the
\* host: nothing, the expected response in one piece, another opcode, or the
\* attribute response with its first two bytes ahead of the rest.
DeviceReplies(command) ==
    IF command = COMMAND_PING
    THEN { <<>>, <<Pong>>, <<BadCode>> }
    ELSE { <<>>, <<AttrReply>>, <<BadCode>>,
           <<SubSeq(AttrReply, 1, 2), SubSeq(AttrReply, 3, Len(AttrReply))>> }

\* a chunk on its way; `more`: another chunk of the same response follows it
Chunk(bytes, more) == [bytes |-> bytes, tag |-> "fresh", more |-> more]

\* the responses in flight, each counted by its last chunk
InflightResponses == Cardinality({i \in DOMAIN inflight : ~inflight[i].more})

\* the device receives a request that has a response and answers it (or not)
DeviceHears(command) ==
    \E reply \in DeviceReplies(command) :
        /\ reply = <<>> \/ InflightResponses < MaxInflight
        /\ inflight' = inflight \o [i \in DOMAIN reply |-> Chunk(reply[i], i < Len(reply))]

\* An exchange ends: what the device sent for it and is still on its way
\* will arrive after it, late when the exchange ended by its timeout.
Settle(how) ==
    inflight' = [i \in DOMAIN inflight |->
                    IF inflight[i].tag = "fresh"
                    THEN [inflight[i] EXCEPT
                            !.tag = IF how = "timeout" THEN "late" ELSE "old"]
                    ELSE inflight[i]]

\* the next chunk reaches the host's receive buffer
Deliver ==
    /\ inflight # <<>>
    /\ rx' = rx \o Head(inflight).bytes
    /\ rx_late' = rx_late + (IF Head(inflight).tag = "late" THEN Len(Head(inflight).bytes) ELSE 0)
    /\ inflight' = Tail(inflight)
    /\ UNCHANGED <<stream, baud, dtr, rts, op, pc, probe, index, calls, tx, ops,
                   saved, frame, frame_late, wait, quiet, ping_res, result,
                   pure_vars>>

\* BinaryCodec::decode under Framed: the frame is everything read so far
decode(source) == source

\* channel.next() yields a frame: the whole receive buffer, which is dropped
\* with the Framed at the end of the call
TakeFrame ==
    /\ rx # <<>>
    /\ frame' = decode(rx)
    /\ frame_late' = rx_late
    /\ rx' = <<>>
    /\ rx_late' = 0

NoFrame == UNCHANGED <<rx, rx_late, frame, frame_late>>

----------------------------------------------------------------------------
(* BoardInterface::open: interfaces/serial/board_interface.rs *)

open ==
    /\ pc = "done"
    /\ stream = "None"
    /\ \/ /\ stream' = "Some"
          /\ baud' = baud_rate
       \/ UNCHANGED <<stream, baud>>
    /\ UNCHANGED <<dtr, rts, op, pc, probe, index, calls, tx, ops, saved, inflight,
                   rx, rx_late, frame, frame_late, wait, quiet, ping_res, result,
                   pure_vars>>

----------------------------------------------------------------------------
(* BootloaderInterface for SerialInterface:                                *)
(* interfaces/serial/bootloader_interface.rs, interfaces/traits.rs         *)

\* a ping that looks only at the first two bytes of the frame
ping_frame_result_prefix(response) ==
    OkBool(Len(response) >= 2 /\ SubSeq(response, 1, 2) = <<ESCAPE_CHAR, RESPONSE_PONG>>)

\* ping: `response == [ESCAPE_CHAR, RESPONSE_PONG]`
ping_frame_result(response) == OkBool(response = <<ESCAPE_CHAR, RESPONSE_PONG>>)

\* ping: the `else` branch of `if let Ok(response) = timeout!(..)`
ping_timeout_result == OkBool(FALSE)

\* ping: channel.next() gave None (end of stream): falls through to Ok(false)
ping_eof_result == OkBool(FALSE)

\* ping: `decoder_result?` and `channel.send(..).await?`
ping_io_result == Err("IOError")

\* bootloader_open: Ok(true) => true, Ok(false) | Err(_) => false
bootloader_open(r) == r = OkBool(TRUE)

\* a get_attribute that lets the expiry fall through to its last line
get_attribute_timeout_falls_through == Err("BootloaderNotOpen")

\* get_attribute: `timeout!(channel.next()).await?` on expiry
get_attribute_timeout_result == Err("Timeout")

\* get_attribute: channel.next() gave None
get_attribute_eof_result == Err("BootloaderNotOpen")

\* get_attribute: `Attribute::parse_raw(decoder_result?)`
get_attribute_frame_result(response) == parse_raw(response)

\* an enter_bootloader that goes on to method 1 whatever the first probe says
eb_after_probe_no_fast_path(k, isopen) ==
    IF k = 0 THEN "method_1"
    ELSE IF isopen THEN "return_true"
    ELSE IF k = 1 THEN "method_2"
    ELSE "return_false"

\* an enter_bootloader that gives up after method 1
eb_after_probe_no_method_2(k, isopen) ==
    IF isopen THEN "return_true"
    ELSE IF k = 0 THEN "method_1"
    ELSE "return_false"

\* enter_bootloader: what follows probe k when it reported `isopen`
eb_after_probe(k, isopen) ==
    IF isopen THEN "return_true"
    ELSE IF k = 0 THEN "method_1"
    ELSE IF k = 1 THEN "method_2"
    ELSE "return_false"

\* a method 2 that raises and releases RTS before DTR
eb_plan_rts_first(at) ==
    CASE at = "method_1" ->
           [cfg |-> <<E("baud", 1200)>>, next |-> "sleep_a", ms |-> 1000]
      [] at = "sleep_a" ->
           [cfg |-> <<>>, next |-> "probe_1", ms |-> 0]
      [] at = "method_2" ->
           [cfg |-> <<E("baud", baud_rate)>>, next |-> "sleep_b", ms |-> 1000]
      [] at = "sleep_b" ->
           [cfg |-> <<E("rts", 1), E("dtr", 1)>>, next |-> "sleep_c", ms |-> 100]
      [] at = "sleep_c" ->
           [cfg |-> <<E("rts", 0)>>, next |-> "sleep_d", ms |-> 500]
      [] at = "sleep_d" ->
           [cfg |-> <<E("dtr", 0)>>, next |-> "probe_2", ms |-> 0]

\* enter_bootloader between two awaits: the configuration calls made from
\* position `at` on, in order, and the await they lead to (a sleep of `ms`
\* milliseconds, or the next probe)
eb_plan(at) ==
    CASE at = "method_1" ->
           [cfg |-> <<E("baud", 1200)>>, next |-> "sleep_a", ms |-> 1000]
      [] at = "sleep_a" ->
           [cfg |-> <<>>, next |-> "probe_1", ms |-> 0]
      [] at = "method_2" ->
           [cfg |-> <<E("baud", baud_rate)>>, next |-> "sleep_b", ms |-> 1000]
      [] at = "sleep_b" ->
           [cfg |-> <<E("dtr", 1), E("rts", 1)>>, next |-> "sleep_c", ms |-> 100]
      [] at = "sleep_c" ->
           [cfg |-> <<E("dtr", 0)>>, next |-> "sleep_d", ms |-> 500]
      [] at = "sleep_d" ->
           [cfg |-> <<E("rts", 0)>>, next |-> "probe_2", ms |-> 0]

\* set_baud_rate / write_data_terminal_ready / write_request_to_send
apply_config(port, ev) ==
    [port EXCEPT !.baud = IF ev.op = "baud" THEN ev.arg ELSE @,
                 !.dtr = IF ev.op = "dtr" THEN ev.arg = 1 ELSE @,
                 !.rts = IF ev.op = "rts" THEN ev.arg = 1 ELSE @]

RECURSIVE apply_configs(_, _)
apply_configs(port, evs) ==
    IF evs = <<>> THEN port
    ELSE apply_configs(apply_config(port, Head(evs)), Tail(evs))

SetPort(port) ==
    /\ baud' = port.baud
    /\ dtr' = port.dtr
    /\ rts' = port.rts

\* ping() begins: the Framed is built on self.stream.as_mut().unwrap()
ping_begin(k, log) ==
    /\ probe' = k
    /\ IF stream = "None"
       THEN /\ pc' = "done"
            /\ result' = Panic
            /\ ops' = log
       ELSE /\ pc' = "ping_send"
            /\ result' = NoResult
            /\ ops' = Append(log, E("ping", k))

\* enter_bootloader runs from position `at` to its next await: the first n
\* configuration calls succeed; when that is not all of them, call n + 1
\* fails and its error is returned (.map_err(TokioSeriallError)?)
eb_run(at, log, q) ==
    LET plan == eb_plan(at)
    IN  \E n \in 0..Len(plan.cfg) :
            LET made == SubSeq(plan.cfg, 1, n)
            IN  /\ SetPort(apply_configs(Port, made))
                /\ IF n < Len(plan.cfg)
                   THEN /\ pc' = "done"
                        /\ result' = Err("TokioSeriallError")
                        /\ ops' = (log \o made) \o <<E("config_failed", 0)>>
                        /\ quiet' = FALSE
                        /\ UNCHANGED probe
                   ELSE /\ quiet' = q
                        /\ IF plan.next = "probe_1" THEN ping_begin(1, log \o made)
                           ELSE IF plan.next = "probe_2" THEN ping_begin(2, log \o made)
                           ELSE /\ pc' = plan.next
                                /\ ops' = (log \o made) \o <<E("sleep", plan.ms)>>
                                /\ UNCHANGED <<probe, result>>

\* ping() returns r to its caller: the user, or enter_bootloader through
\* bootloader_open, which then goes on to its next await
ping_return(r, how) ==
    /\ ping_res' = r
    /\ wait' = how
    /\ IF op = "ping"
       THEN /\ result' = r
            /\ pc' = "done"
            /\ quiet' = (quiet /\ how = "timeout")
            /\ UNCHANGED <<ops, baud, dtr, rts, probe>>
       ELSE LET to == eb_after_probe(probe, bootloader_open(r))
            IN  IF to \in {"return_true", "return_false"}
                THEN /\ pc' = "done"
                     /\ result' = OkBool(to = "return_true")
                     /\ quiet' = (quiet /\ how = "timeout")
                     /\ UNCHANGED <<ops, baud, dtr, rts, probe>>
                ELSE eb_run(to, ops, quiet /\ how = "timeout")

\* what every call does to the bookkeeping of the model when it starts
call_begin(name) ==
    /\ pc = "done"
    /\ calls < MaxCalls
    /\ calls' = calls + 1
    /\ op' = name
    /\ tx' = <<>>
    /\ saved' = Port
    /\ frame' = <<>>
    /\ frame_late' = 0
    /\ wait' = "none"
    /\ quiet' = TRUE
    /\ ping_res' = NoResult
    /\ UNCHANGED <<stream, baud, dtr, rts, inflight, rx, rx_late, pure_vars>>

call_ping ==
    /\ call_begin("ping")
    /\ index' = 0
    /\ ping_begin(0, <<>>)

ping_send ==
    /\ pc = "ping_send"
    /\ \/ /\ tx' = Append(tx, <<ESCAPE_CHAR, COMMAND_PING>>)
          /\ DeviceHears(COMMAND_PING)
          /\ pc' = "ping_wait"
          /\ wait' = "pending"
          /\ UNCHANGED <<ping_res, result, ops, quiet, baud, dtr, rts, probe>>
       \/ /\ ping_return(ping_io_result, "send_failed")
          /\ UNCHANGED <<tx, inflight>>
    /\ frame' = <<>>
    /\ frame_late' = 0
    /\ UNCHANGED <<stream, op, index, calls, saved, rx, rx_late, pure_vars>>

ping_frame ==
    /\ pc = "ping_wait"
    /\ TakeFrame
    /\ ping_return(ping_frame_result(frame'), "frame")
    /\ Settle("frame")
    /\ UNCHANGED <<stream, op, index, calls, tx, saved, pure_vars>>

ping_io_error ==
    /\ pc = "ping_wait"
    /\ ping_return(ping_io_result, "io_error")
    /\ NoFrame
    /\ Settle("io_error")
    /\ UNCHANGED <<stream, op, index, calls, tx, saved, pure_vars>>

ping_eof ==
    /\ pc = "ping_wait"
    /\ rx = <<>>
    /\ ping_return(ping_eof_result, "eof")
    /\ NoFrame
    /\ Settle("eof")
    /\ UNCHANGED <<stream, op, index, calls, tx, saved, pure_vars>>

\* a ping that awaits channel.next() without timeout!
ping_never_times_out == FALSE

\* tokio::time::timeout polls the read first: it expires only with nothing to read
ping_timeout ==
    /\ pc = "ping_wait"
    /\ rx = <<>>
    /\ ping_return(ping_timeout_result, "timeout")
    /\ NoFrame
    /\ Settle("timeout")
    /\ UNCHANGED <<stream, op, index, calls, tx, saved, pure_vars>>

----------------------------------------------------------------------------
(* sync and get_attribute *)

call_get_attribute ==
    /\ call_begin("get_attribute")
    /\ index' \in {0, 1}
    /\ probe' = 0
    /\ IF stream = "None"
       THEN /\ pc' = "done"
            /\ result' = Panic
            /\ ops' = <<>>
       ELSE /\ pc' = "sync_send"
            /\ result' = NoResult
            /\ ops' = <<E("sync", 0)>>

attr_fixed == <<stream, baud, dtr, rts, op, probe, index, calls, saved, ping_res,
                pure_vars>>

\* a get_attribute that does not send the sync frame
sync_send_skipped ==
    /\ pc = "sync_send"
    /\ pc' = "attr_send"
    /\ ops' = Append(ops, E("get_attribute", index))
    /\ UNCHANGED <<tx, result, wait, quiet, inflight>>
    /\ NoFrame
    /\ UNCHANGED attr_fixed

\* sync(): channel.send([0x00, ESCAPE_CHAR, COMMAND_RESET]).await?
sync_send ==
    /\ pc = "sync_send"
    /\ \/ /\ tx' = Append(tx, <<0, ESCAPE_CHAR, COMMAND_RESET>>)
          /\ pc' = "attr_send"
          /\ ops' = Append(ops, E("get_attribute", index))
          /\ UNCHANGED <<result, wait, quiet>>
       \/ /\ result' = Err("IOError")
          /\ pc' = "done"
          /\ wait' = "send_failed"
          /\ quiet' = FALSE
          /\ UNCHANGED <<tx, ops>>
    /\ NoFrame
    /\ UNCHANGED inflight
    /\ UNCHANGED attr_fixed

\* channel.send([index, ESCAPE_CHAR, COMMAND_GET_ATTRIBUTE]).await?
attr_send ==
    /\ pc = "attr_send"
    /\ \/ /\ tx' = Append(tx, <<index, ESCAPE_CHAR, COMMAND_GET_ATTRIBUTE>>)
          /\ DeviceHears(COMMAND_GET_ATTRIBUTE)
          /\ pc' = "attr_wait"
          /\ wait' = "pending"
          /\ UNCHANGED <<result, quiet>>
       \/ /\ result' = Err("IOError")
          /\ pc' = "done"
          /\ wait' = "send_failed"
          /\ quiet' = FALSE
          /\ UNCHANGED <<tx, inflight>>
    /\ UNCHANGED <<ops, rx, rx_late, frame, frame_late>>
    /\ UNCHANGED attr_fixed

attr_return(r, how) ==
    /\ pc = "attr_wait"
    /\ result' = r
    /\ wait' = how
    /\ quiet' = (quiet /\ how = "timeout")
    /\ pc' = "done"
    /\ Settle(how)
    /\ UNCHANGED <<tx, ops>>
    /\ UNCHANGED attr_fixed

attr_frame ==
    /\ TakeFrame
    /\ attr_return(get_attribute_frame_result(frame'), "frame")

attr_io_error ==
    /\ attr_return(Err("IOError"), "io_error")
    /\ NoFrame

attr_eof ==
    /\ rx = <<>>
    /\ attr_return(get_attribute_eof_result, "eof")
    /\ NoFrame

attr_timeout ==
    /\ rx = <<>>
    /\ attr_return(get_attribute_timeout_result, "timeout")
    /\ NoFrame

----------------------------------------------------------------------------
(* enter_bootloader *)

call_enter_bootloader ==
    /\ call_begin("enter_bootloader")
    /\ index' = 0
    /\ IF stream = "None"
       THEN /\ pc' = "done"
            /\ result' = Err("StreamClosed")
            /\ ops' = <<>>
            /\ probe' = 0
       ELSE ping_begin(0, <<>>)

\* a sleep of enter_bootloader ends and it runs on to its next await
eb_wake ==
    /\ pc \in {"sleep_a", "sleep_b", "sleep_c", "sleep_d"}
    /\ eb_run(pc, ops, quiet)
    /\ UNCHANGED <<stream, op, index, calls, tx, saved, inflight, rx, rx_late,
                   frame, frame_late, wait, ping_res, pure_vars>>

----------------------------------------------------------------------------
(* The interface under any sequence of calls *)

MachineInit ==
    /\ stream = "None"
    /\ baud = 0
    /\ dtr = FALSE
    /\ rts = FALSE
    /\ op = "none"
    /\ pc = "done"
    /\ probe = 0
    /\ index = 0
    /\ calls = 0
    /\ tx = <<>>
    /\ ops = <<>>
    /\ saved = [stream |-> "None", baud |-> 0, dtr |-> FALSE, rts |-> FALSE]
    /\ inflight = <<>>
    /\ rx = <<>>
    /\ rx_late = 0
    /\ frame = <<>>
    /\ frame_late = 0
    /\ wait = "none"
    /\ quiet = TRUE
    /\ ping_res = NoResult

Init ==
    /\ MachineInit
    /\ result = NoResult
    /\ input = <<>>
    /\ output = <<>>
    /\ stage = "none"

\* the steps of the method in progress
Progress ==
    \/ ping_send
    \/ ping_frame
    \/ ping_io_error
    \/ ping_eof
    \/ ping_timeout
    \/ sync_send
    \/ attr_send
    \/ attr_frame
    \/ attr_io_error
    \/ attr_eof
    \/ attr_timeout
    \/ eb_wake

Next ==
    \/ open
    \/ call_ping
    \/ call_get_attribute
    \/ call_enter_bootloader
    \/ Progress
    \/ Deliver

Spec == Init /\ [][Next]_vars

----------------------------------------------------------------------------
(* Termination: the steps the runtime takes by itself. The timer of        *)
(* timeout! and of sleep fires, a pending send completes, and a read with  *)
(* bytes to read returns them. A transport fault (I/O error, end of        *)
(* stream) is not one of them.                                             *)

Scheduled ==
    \/ ping_send
    \/ ping_frame
    \/ ping_timeout
    \/ sync_send
    \/ attr_send
    \/ attr_frame
    \/ attr_timeout
    \/ eb_wake

LiveNext == Next /\ calls' <= MaxLiveCalls

LiveSpec == Init /\ [][LiveNext]_vars /\ WF_vars(Scheduled)

----------------------------------------------------------------------------
(* The escape codec on every byte sequence up to MaxLen *)

BoundedSeq(S, n) == UNION { [1..k -> S] : k \in 0..n }

\* the sentinel, the PONG opcode and a byte that is neither
CodecBytes == {COMMAND_PING, RESPONSE_PONG, ESCAPE_CHAR}

CodecInit ==
    /\ MachineInit
    /\ result = NoResult
    /\ input \in BoundedSeq(CodecBytes, MaxLen)
    /\ output = <<>>
    /\ stage = "input"

do_escape ==
    /\ stage = "input"
    /\ output' = escape(input)
    /\ stage' = "escaped"
    /\ UNCHANGED <<machine_vars, result, input>>

\* deescape applied to the output of escape
do_deescape_escaped ==
    /\ stage = "escaped"
    /\ output' = deescape(output)
    /\ stage' = "roundtrip"
    /\ UNCHANGED <<machine_vars, result, input>>

\* deescape applied to the input as it is
do_deescape ==
    /\ stage = "input"
    /\ output' = deescape(input)
    /\ stage' = "deescaped"
    /\ UNCHANGED <<machine_vars, result, input>>

\* the bytes read from the port become the frame of channel.next()
do_decode ==
    /\ stage = "input"
    /\ input # <<>>
    /\ output' = decode(input)
    /\ stage' = "decoded"
    /\ UNCHANGED <<machine_vars, result, input>>

CodecNext ==
    \/ do_escape
    \/ do_deescape_escaped
    \/ do_deescape
    \/ do_decode

CodecSpec == CodecInit /\ [][CodecNext]_vars

----------------------------------------------------------------------------
(* The attribute decoder on truncated and complete responses *)

\* NUL, "A", and the two bytes of U+00E9 (195 alone is not UTF-8)
FieldBytes == {0, 65, 195, 169}

PadKey(k) == k \o [i \in 1..(8 - Len(k)) |-> 0]

\* <b0> <b1> <key padded to 8> <N> <value>, cut after any number of bytes
AttrResponse(b0, b1, k, len, v) == (<<b0, b1>> \o PadKey(k)) \o (<<len>> \o v)

\* lengths the length byte (a u8) can announce, up to its largest
LongValues == {245, 246, 255}

AttrInit ==
    /\ MachineInit
    /\ result = NoResult
    /\ \/ \E b0 \in {ESCAPE_CHAR, RESPONSE_PONG},
             b1 \in {RESPONSE_GET_ATTRIBUTE, RESPONSE_PONG},
             k \in BoundedSeq(FieldBytes, MaxKeyLen),
             len \in 0..MaxValLen,
             v \in BoundedSeq(FieldBytes, MaxValLen) :
               \E n \in 0..(11 + Len(v)) :
                   input = SubSeq(AttrResponse(b0, b1, k, len, v), 1, n)
       \/ \E n \in LongValues :
               input = AttrResponse(ESCAPE_CHAR, RESPONSE_GET_ATTRIBUTE,
                                    <<65>>, n, [i \in 1..n |-> 65])
    /\ output = <<>>
    /\ stage = "input"

do_parse_raw ==
    /\ stage = "input"
    /\ result' = parse_raw(input)
    /\ stage' = "parsed"
    /\ UNCHANGED <<machine_vars, input, output>>

AttrNext == do_parse_raw

AttrSpec == AttrInit /\ [][AttrNext]_vars

----------------------------------------------------------------------------
(* TBF types: tbf-parser/src/types.rs *)

\* TbfHeaderV2.permissions: Option<TbfHeaderV2Permissions<8>>
PERMISSIONS_L == 8

\* const NUM_STORAGE_PERMISSIONS: usize = 8
NUM_STORAGE_PERMISSIONS == 8

\* TbfHeaderTypes::TbfHeaderPermissions = 6
TbfHeaderPermissions == 6

\* TbfHeaderTypes::TbfHeaderStoragePermissions = 7
TbfHeaderStoragePermissions == 7

\* Integers wider than 16 bits are kept as their 16-bit limbs, least
\* significant first: a u32 is <<lo, hi>>, a u64 and a usize four limbs.
u16_from_le_bytes(b) == b[1] + 256 * b[2]

u32_from_le_bytes(b) == <<b[1] + 256 * b[2], b[3] + 256 * b[4]>>

u64_from_le_bytes(b) ==
    <<b[1] + 256 * b[2], b[3] + 256 * b[4],
      b[5] + 256 * b[6], b[7] + 256 * b[8]>>

\* `x as u32` of a usize: the low 32 bits
as_u32(x) == <<x[1], x[2]>>

\* `n as u32` of a u16 or of a small length
to_u32(n) == <<n % 65536, n \div 65536>>

u32_zero == <<0, 0>>

u64_zero == <<0, 0, 0, 0>>

\* slice.get(start..end) is Some
in_range(b, start, end) == start <= end /\ end <= Len(b)

\* the slice b[start..end]
slice(b, start, end) == SubSeq(b, start + 1, end)

\* core::num::NonZeroU32::new
NonZeroU32_new(x) == [some |-> x # u32_zero, v |-> x]

\* Result<T, TbfParseError>
TbfOk(v) == [kind |-> "Ok", err |-> "", arg |-> 0, val |-> v]

TbfErr(e, a) == [kind |-> "Err", err |-> e, arg |-> a, val |-> <<>>]

TbfPanic == [kind |-> "Panic", err |-> "", arg |-> 0, val |-> <<>>]

\* TryFrom<&[u8]> for TbfHeaderDriverPermission
TbfHeaderDriverPermission_try_from(b) ==
    IF Len(b) < 16 THEN TbfErr("InternalError", 0)
    ELSE TbfOk([driver_number |-> u32_from_le_bytes(slice(b, 0, 4)),
                offset |-> u32_from_le_bytes(slice(b, 4, 8)),
                allowed_commands |-> u64_from_le_bytes(slice(b, 8, 16))])

\* [TbfHeaderDriverPermission { 0, 0, 0 }; L]
default_perms(L) ==
    [i \in 1..L |-> [driver_number |-> u32_zero, offset |-> u32_zero,
                     allowed_commands |-> u64_zero]]

\* for i in 0..number_perms: fill perms[i] from b[2 + 16 i .. 2 + 16 (i + 1)]
RECURSIVE permissions_loop(_, _, _, _, _)
permissions_loop(b, L, number_perms, i, perms) ==
    IF i >= number_perms
    THEN TbfOk([length |-> number_perms, perms |-> perms])
    ELSE LET start == 2 + i * 16
             end == start + 16
         IN  IF i < L
             THEN IF ~in_range(b, start, end)
                  THEN TbfErr("NotEnoughFlash", 0)
                  ELSE LET perm == TbfHeaderDriverPermission_try_from(
                                       slice(b, start, end))
                       IN  IF perm.kind = "Err" THEN perm
                           ELSE permissions_loop(b, L, number_perms, i + 1,
                                    [perms EXCEPT ![i + 1] = perm.val])
             ELSE TbfErr("BadTlvEntry", TbfHeaderPermissions)

\* a conversion that keeps the first L entries of a longer list
TbfHeaderV2Permissions_try_from_clamped(b, L) ==
    IF ~in_range(b, 0, 2) THEN TbfErr("NotEnoughFlash", 0)
    ELSE LET number_perms == u16_from_le_bytes(slice(b, 0, 2))
         IN  permissions_loop(b, L, IF number_perms > L THEN L ELSE number_perms,
                              0, default_perms(L))

\* TryFrom<&[u8]> for TbfHeaderV2Permissions<L>
TbfHeaderV2Permissions_try_from(b, L) ==
    IF ~in_range(b, 0, 2) THEN TbfErr("NotEnoughFlash", 0)
    ELSE permissions_loop(b, L, u16_from_le_bytes(slice(b, 0, 2)), 0,
                          default_perms(L))

\* for i in 0..length: fill ids[i] from b[first + 4 i .. first + 4 (i + 1)]
RECURSIVE ids_loop(_, _, _, _, _, _)
ids_loop(b, L, first, length, i, ids) ==
    IF i >= length THEN TbfOk(ids)
    ELSE LET start == first + i * 4
             end == start + 4
         IN  IF i < L
             THEN IF ~in_range(b, start, end)
                  THEN TbfErr("NotEnoughFlash", 0)
                  ELSE ids_loop(b, L, first, length, i + 1,
                           [ids EXCEPT ![i + 1] =
                                u32_from_le_bytes(slice(b, start, end))])
             ELSE TbfErr("BadTlvEntry", TbfHeaderStoragePermissions)

\* TryFrom<&[u8]> for TbfHeaderV2StoragePermissions<L>
TbfHeaderV2StoragePermissions_try_from(b, L) ==
    IF ~in_range(b, 0, 4) THEN TbfErr("NotEnoughFlash", 0)
    ELSE IF ~in_range(b, 4, 6) THEN TbfErr("NotEnoughFlash", 0)
    ELSE LET write_id == NonZeroU32_new(u32_from_le_bytes(slice(b, 0, 4)))
             read_length == u16_from_le_bytes(slice(b, 4, 6))
             read_ids == ids_loop(b, L, 6, read_length, 0,
                                  [i \in 1..L |-> u32_zero])
             read_end == 6 + 4 * read_length
         IN  IF read_ids.kind = "Err" THEN read_ids
             ELSE IF ~in_range(b, read_end, read_end + 2)
                  THEN TbfErr("NotEnoughFlash", 0)
             ELSE LET modify_length ==
                          u16_from_le_bytes(slice(b, read_end, read_end + 2))
                      modify_ids == ids_loop(b, L, read_end + 2,
                                        modify_length, 0,
                                        [i \in 1..L |-> u32_zero])
                  IN  IF modify_ids.kind = "Err" THEN modify_ids
                      ELSE TbfOk([write_id |-> write_id,
                                  read_length |-> read_length,
                                  read_ids |-> read_ids.val,
                                  modify_length |-> modify_length,
                                  modify_ids |-> modify_ids.val])

\* Option<T>
Some(v) == [some |-> TRUE, v |-> v]

None == [some |-> FALSE, v |-> <<>>]

\* TbfHeaderV2.package_name: Option<TbfHeaderV2PackageName<64>>
PACKAGE_NAME_L == 64

\* TryFrom<&[u8]> for TbfHeaderV2PackageName<L>
TbfHeaderV2PackageName_try_from(value, L) ==
    IF Len(value) > L THEN TbfErr("PackageNameTooLong", 0)
    ELSE IF ~ValidUtf8(value) THEN TbfErr("BadProcessName", 0)
    ELSE TbfOk([size |-> to_u32(Len(value)),
                buffer |-> value \o [i \in 1..(L - Len(value)) |-> 0]])

\* a table that gives an RSA credential the size of its key alone
credentials_length_of_key(ftype) ==
    CASE ftype = "Reserved" -> 0
      [] ftype = "Rsa3072Key" -> 384
      [] ftype = "Rsa4096Key" -> 512
      [] ftype = "SHA256" -> 32
      [] ftype = "SHA384" -> 48
      [] ftype = "SHA512" -> 64

\* let length = match ftype { .. }
credentials_length(ftype) ==
    CASE ftype = "Reserved" -> 0
      [] ftype = "Rsa3072Key" -> 768
      [] ftype = "Rsa4096Key" -> 1024
      [] ftype = "SHA256" -> 32
      [] ftype = "SHA384" -> 48
      [] ftype = "SHA512" -> 64

\* data.try_into() to [u8; L]
try_into_array(data, L) == Len(data) = L

\* TryFrom<&[u8]> for TbfFooterV2Credentials
TbfFooterV2Credentials_try_from(b) ==
    IF ~in_range(b, 0, 4) THEN TbfErr("InternalError", 0)
    ELSE LET format == u32_from_le_bytes(slice(b, 0, 4))
             known == format[2] = 0 /\ format[1] <= 5
             ftype == CASE format[1] = 0 -> "Reserved"
                        [] format[1] = 1 -> "Rsa3072Key"
                        [] format[1] = 2 -> "Rsa4096Key"
                        [] format[1] = 3 -> "SHA256"
                        [] format[1] = 4 -> "SHA384"
                        [] format[1] = 5 -> "SHA512"
             length == credentials_length(ftype)
             data == slice(b, 4, length + 4)
             L == CASE ftype = "SHA256" -> 32
                    [] ftype = "SHA384" -> 48
                    [] ftype = "SHA512" -> 64
                    [] ftype = "Rsa3072Key" -> 384
                    [] ftype = "Rsa4096Key" -> 512
         IN  IF ~known THEN TbfErr("InternalError", 0)
             ELSE IF ~in_range(b, 4, length + 4)
                  THEN TbfErr("NotEnoughFlash", 0)
             ELSE IF ftype = "Reserved"
                  THEN TbfOk([variant |-> ftype, padding |-> to_u32(Len(b))])
             ELSE IF ftype \in {"SHA256", "SHA384", "SHA512"}
                  THEN IF try_into_array(data, L)
                       THEN TbfOk([variant |-> ftype, hash |-> data])
                       ELSE TbfErr("InternalError", 0)
             ELSE LET public_key == slice(data, 0, length \div 2)
                      signature == slice(data, length \div 2, Len(data))
                  IN  IF try_into_array(public_key, L)
                         /\ try_into_array(signature, L)
                      THEN TbfOk([variant |-> ftype,
                                  public_key |-> public_key,
                                  signature |-> signature])
                      ELSE TbfErr("InternalError", 0)

\* TbfFooterV2SHA<L>::get_format and TbfFooterV2RSA<L>::get_format, on the
\* length L of the arrays the credential holds
get_format(creds) ==
    IF creds.variant \in {"SHA256", "SHA384", "SHA512"}
    THEN CASE Len(creds.hash) = 32 -> TbfOk("SHA256")
           [] Len(creds.hash) = 48 -> TbfOk("SHA384")
           [] Len(creds.hash) = 64 -> TbfOk("SHA512")
           [] OTHER -> TbfErr("InternalError", 0)
    ELSE CASE Len(creds.public_key) = 384 -> TbfOk("Rsa3072Key")
           [] Len(creds.public_key) = 512 -> TbfOk("Rsa4096Key")
           [] OTHER -> TbfErr("InternalError", 0)

\* TbfHeader: TbfHeaderV2(TbfHeaderV2) | Padding(TbfHeaderV2Base)
TbfHeaderV2(base, main, program, package_name, permissions) ==
    [variant |-> "TbfHeaderV2", base |-> base, main |-> main,
     program |-> program, package_name |-> package_name,
     permissions |-> permissions]

Padding(base) ==
    [variant |-> "Padding", base |-> base, main |-> None, program |-> None,
     package_name |-> None, permissions |-> None]

\* TbfHeaderV2Base
Base(header_size, total_size) ==
    [version |-> 2, header_size |-> header_size, total_size |-> total_size,
     flags |-> <<1, 0>>, checksum |-> u32_zero]

\* a name that comes with the padding of its buffer
get_package_name_whole_buffer(header) ==
    IF header.variant = "TbfHeaderV2" /\ header.package_name.some
    THEN Some(header.package_name.v.buffer)
    ELSE None

\* TbfHeader::get_package_name
get_package_name(header) ==
    IF header.variant = "TbfHeaderV2" /\ header.package_name.some
    THEN LET name == header.package_name.v
             bytes == slice(name.buffer, 0,
                           name.size[1] + 65536 * name.size[2])
         IN  IF ValidUtf8(bytes) THEN Some(bytes) ELSE TbfPanic
    ELSE None

\* parse_tbf_header_lengths(app: &[u8; 8]) of parse.rs, which the tests
\* call: version, header_size and total_size of the first 8 bytes;
\* UnableToParse for a version other than 2, InvalidHeader(total_size) when
\* header_size exceeds total_size.
parse_tbf_header_lengths(app) ==
    LET version == u16_from_le_bytes(slice(app, 0, 2))
        header_size == u16_from_le_bytes(slice(app, 2, 4))
        total_size == u32_from_le_bytes(slice(app, 4, 8))
        r(kind) == [kind |-> kind, version |-> version,
                    header_size |-> header_size, total_size |-> total_size]
    IN  IF version # 2 THEN r("UnableToParse")
        ELSE IF total_size[2] = 0 /\ header_size > total_size[1]
             THEN r("InvalidHeader")
             ELSE r("Ok")

\* TbfHeaderV2Main and TbfHeaderV2Program
Main(init_fn_offset) ==
    [init_fn_offset |-> init_fn_offset, protected_trailer_size |-> u32_zero,
     minimum_ram_size |-> <<4848, 0>>]

Program(init_fn_offset, binary_end_offset) ==
    [init_fn_offset |-> init_fn_offset, protected_trailer_size |-> u32_zero,
     minimum_ram_size |-> <<4848, 0>>,
     binary_end_offset |-> binary_end_offset, version |-> u32_zero]

\* a + b on u32: the sum, or on overflow a panic (overflow checks on) or
\* the sum modulo 2^32 (overflow checks off)
u32_add(a, b) ==
    LET lo == a[1] + b[1]
        hi == a[2] + b[2] + (lo \div 65536)
    IN  IF hi < 65536 THEN {TbfOk(<<lo % 65536, hi>>)}
        ELSE {TbfPanic, TbfOk(<<lo % 65536, hi % 65536>>)}

\* TbfHeader::get_init_function_offset: the set of its outcomes
get_init_function_offset(header) ==
    IF header.variant = "TbfHeaderV2"
    THEN IF header.program.some
         THEN u32_add(header.program.v.init_fn_offset,
                      to_u32(header.base.header_size))
         ELSE IF header.main.some
              THEN u32_add(header.main.v.init_fn_offset,
                           to_u32(header.base.header_size))
              ELSE {TbfOk(u32_zero)}
    ELSE {TbfOk(u32_zero)}

\* an end of binary that is always the size of the TBF
get_binary_end_total_size(header) ==
    IF header.variant = "TbfHeaderV2" THEN header.base.total_size
    ELSE u32_zero

\* TbfHeader::get_binary_end
get_binary_end(header) ==
    IF header.variant = "TbfHeaderV2"
    THEN IF header.program.some THEN header.program.v.binary_end_offset
         ELSE header.base.total_size
    ELSE u32_zero

\* CommandPermissions
NoPermsAtAll == [variant |-> "NoPermsAtAll", mask |-> u64_zero]

NoPermsThisDriver == [variant |-> "NoPermsThisDriver", mask |-> u64_zero]

Mask(m) == [variant |-> "Mask", mask |-> m]

\* for perm in permissions.perms { .. }, then the result after the loop
RECURSIVE command_permissions_loop(_, _, _, _, _)
command_permissions_loop(perms, i, driver_num, offset, found_driver_num) ==
    IF i > Len(perms)
    THEN IF found_driver_num THEN Mask(u64_zero) ELSE NoPermsThisDriver
    ELSE IF perms[i].driver_number = as_u32(driver_num)
         THEN IF perms[i].offset = as_u32(offset)
              THEN Mask(perms[i].allowed_commands)
              ELSE command_permissions_loop(perms, i + 1, driver_num,
                                            offset, TRUE)
         ELSE command_permissions_loop(perms, i + 1, driver_num, offset,
                                       found_driver_num)

\* TbfHeader::get_command_permissions
get_command_permissions(header, driver_num, offset) ==
    IF header.variant = "TbfHeaderV2" /\ header.permissions.some
    THEN command_permissions_loop(header.permissions.v.perms, 1, driver_num,
                                  offset, FALSE)
    ELSE NoPermsAtAll

\* tbf-parser/src/lib.rs, add under cfg(feature = "std"): the sum starts
\* at 1 and every item of [left, right] is added to it
add_std(left, right) ==
    LET a == <<left, right>>
        sum0 == 1
        sum1 == sum0 + a[1]
        sum2 == sum1 + a[2]
    IN  sum2

\* add under cfg(not(feature = "std"))
add_no_std(left, right) == left + right

----------------------------------------------------------------------------
(* The conversions and accessors of types.rs on generated inputs *)

\* declared entries beyond the capacity of a collection
MaxOver == 2

le16(n) == <<n % 256, n \div 256>>

le32(x) == le16(x[1]) \o le16(x[2])

le64(x) == (le16(x[1]) \o le16(x[2])) \o (le16(x[3]) \o le16(x[4]))

\* driver 0, driver 1 at offsets 0 and 1, driver 65536
DriverPerms ==
    { [driver_number |-> <<0, 0>>, offset |-> <<0, 0>>,
       allowed_commands |-> <<5, 0, 0, 0>>],
      [driver_number |-> <<1, 0>>, offset |-> <<0, 0>>,
       allowed_commands |-> <<3, 0, 0, 0>>],
      [driver_number |-> <<1, 0>>, offset |-> <<1, 0>>,
       allowed_commands |-> <<0, 0, 0, 32768>>],
      [driver_number |-> <<0, 1>>, offset |-> <<0, 0>>,
       allowed_commands |-> <<9, 0, 0, 0>>] }

\* n entries, all e1 but the j-th, which is e2
PermList(n, e1, e2, j) == [i \in 1..n |-> IF i = j THEN e2 ELSE e1]

RECURSIVE encode_perms(_)
encode_perms(list) ==
    IF list = <<>> THEN <<>>
    ELSE ((le32(list[1].driver_number) \o le32(list[1].offset))
            \o le64(list[1].allowed_commands)) \o encode_perms(Tail(list))

\* <number_perms: u16> <entries>
PermissionsBody(list) == le16(Len(list)) \o encode_perms(list)

RECURSIVE encode_ids(_)
encode_ids(n) == IF n = 0 THEN <<>> ELSE encode_ids(n - 1) \o le32(to_u32(n))

\* <write_id: u32> <read_length: u16> <read ids> <modify_length: u16> <ids>
StoragePermissionsBody(w, r, m) ==
    ((le32(w) \o le16(r)) \o encode_ids(r)) \o (le16(m) \o encode_ids(m))

\* the body without its last `cut` bytes
Truncated(b, cut) == SubSeq(b, 1, Len(b) - cut)

\* NUL and the two bytes of U+00E9 (195 alone is not UTF-8)
NameBytes == {0, 195, 169}

\* format codes 0..6 and 65539, whose low 16 bits are 3
FormatCodes == {<<c, 0>> : c \in 0..6} \cup {<<3, 1>>}

\* the sizes of the credentials after their format code
PayloadSizes == {0, 32, 48, 64, 768, 1024}

\* n bytes of credential data, no two neighbours alike
Payload(n, seed) == [i \in 1..n |-> (7 * i + seed) % 256]

\* driver numbers (usize): 0, 1, 2, 65536 and 2^32 + 1
DriverNums ==
    {<<0, 0, 0, 0>>, <<1, 0, 0, 0>>, <<2, 0, 0, 0>>, <<0, 1, 0, 0>>,
     <<1, 0, 1, 0>>}

\* number of 8-byte blocks of a flash region
MaxBlocks == 3

\* lines the reader task prints and keys the writer task sends, at most
MaxLines == 2

MaxKeys == 2

\* the first 8 bytes of: an 8-byte image, a 16-byte image, an image whose
\* header is longer than the image, the same with total_size 0, erased
\* flash (all 0xFF) and zeroed flash
Blocks ==
    { <<2, 0, 8, 0, 8, 0, 0, 0>>, <<2, 0, 8, 0, 16, 0, 0, 0>>,
      <<2, 0, 16, 0, 8, 0, 0, 0>>, <<2, 0, 1, 0, 0, 0, 0, 0>>,
      <<255, 255, 255, 255, 255, 255, 255, 255>>,
      <<0, 0, 0, 0, 0, 0, 0, 0>> }

TbfInit ==
    /\ MachineInit
    /\ result = NoResult
    /\ \/ \E n \in 0..(PERMISSIONS_L + MaxOver), e1 \in DriverPerms,
             e2 \in DriverPerms, cut \in 0..1 :
               \E j \in 0..n :
                   input = [tlv |-> "permissions", declared |-> n, cut |-> cut,
                            b |-> Truncated(
                                PermissionsBody(PermList(n, e1, e2, j)), cut)]
       \/ \E w \in {0, 7}, r \in 0..(NUM_STORAGE_PERMISSIONS + MaxOver),
             m \in 0..(NUM_STORAGE_PERMISSIONS + MaxOver), cut \in 0..1 :
               input = [tlv |-> "storage_permissions", reads |-> r,
                        modifies |-> m, cut |-> cut,
                        b |-> Truncated(
                            StoragePermissionsBody(to_u32(w), r, m), cut)]
       \/ \E head \in BoundedSeq(NameBytes, 2),
             k \in 0..(PACKAGE_NAME_L + MaxOver) :
               input = [tlv |-> "package_name", cut |-> 0,
                        b |-> head \o [i \in 1..k |-> 97]]
       \/ \E code \in FormatCodes, n \in PayloadSizes,
             d \in -1..MaxOver, seed \in 0..1 :
               n + d >= 0
               /\ input = [tlv |-> "credentials", cut |-> 0,
                           b |-> le32(code) \o Payload(n + d, seed)]
       \/ \E n \in 0..3 :
               input = [tlv |-> "credentials", cut |-> 4 - n,
                        b |-> [i \in 1..n |-> 3]]
       \/ \E n \in 0..PERMISSIONS_L, e1 \in DriverPerms, e2 \in DriverPerms,
             driver_num \in DriverNums, offset \in {<<0, 0, 0, 0>>, <<1, 0, 0, 0>>} :
               \E j \in 0..n :
                   input = [tlv |-> "permissions_query", cut |-> 0,
                            list |-> PermList(n, e1, e2, j),
                            driver_num |-> driver_num, offset |-> offset,
                            header |-> TbfHeaderV2(
                                Base(52, <<8192, 0>>), Some(Main(<<41, 0>>)),
                                None, None,
                                Some(TbfHeaderV2Permissions_try_from(
                                         PermissionsBody(
                                             PermList(n, e1, e2, j)),
                                         PERMISSIONS_L).val))]
       \/ \E driver_num \in DriverNums, offset \in {<<0, 0, 0, 0>>, <<1, 0, 0, 0>>},
             header \in {Padding(Base(52, <<8192, 0>>)),
                         TbfHeaderV2(Base(52, <<8192, 0>>),
                                     Some(Main(<<41, 0>>)), None, None,
                                     None)} :
               input = [tlv |-> "permissions_query", cut |-> 0,
                        list |-> <<>>, driver_num |-> driver_num,
                        offset |-> offset, header |-> header]
       \/ \E header_size \in {0, 52, 65535}, total_size \in {<<8192, 0>>, <<0, 1>>},
             main \in {None} \cup {Some(Main(i)) : i \in {<<41, 0>>, <<65484, 65535>>, <<65535, 65535>>}},
             program \in {None}
                 \cup {Some(Program(i, e)) : i \in {<<41, 0>>, <<65484, 65535>>, <<65535, 65535>>},
                                             e \in {<<5836, 0>>, u32_zero}},
             padding \in BOOLEAN :
               /\ padding <=> (~main.some /\ ~program.some)
               /\ input = [tlv |-> "header", cut |-> 0,
                           header |->
                               IF padding
                               THEN Padding(Base(header_size, total_size))
                               ELSE TbfHeaderV2(
                                        Base(header_size, total_size),
                                        main, program, None, None)]
       \/ \E blocks \in BoundedSeq(Blocks, MaxBlocks),
             tail \in {<<>>, <<2, 0, 8>>} :
               input = [tlv |-> "region", cut |-> 0,
                        b |-> [i \in 1..(8 * Len(blocks)) |->
                                  blocks[((i - 1) \div 8) + 1]
                                        [((i - 1) % 8) + 1]] \o tail]
       \/ \E left \in 0..3, right \in 0..3, std \in BOOLEAN :
               input = [tlv |-> "add", cut |-> 0, left |-> left,
                        right |-> right, std |-> std]
    /\ output = <<>>
    /\ stage = "input"

do_permissions ==
    /\ stage = "input"
    /\ input.tlv = "permissions"
    /\ output' = TbfHeaderV2Permissions_try_from(input.b, PERMISSIONS_L)
    /\ stage' = "converted"
    /\ UNCHANGED <<machine_vars, result, input>>

do_storage_permissions ==
    /\ stage = "input"
    /\ input.tlv = "storage_permissions"
    /\ output' = TbfHeaderV2StoragePermissions_try_from(
                      input.b, NUM_STORAGE_PERMISSIONS)
    /\ stage' = "converted"
    /\ UNCHANGED <<machine_vars, result, input>>

do_package_name ==
    /\ stage = "input"
    /\ input.tlv = "package_name"
    /\ output' = TbfHeaderV2PackageName_try_from(input.b, PACKAGE_NAME_L)
    /\ stage' = "converted"
    /\ UNCHANGED <<machine_vars, result, input>>

\* get_package_name on a header that carries the converted name
do_get_package_name ==
    /\ stage = "converted"
    /\ input.tlv = "package_name"
    /\ output.kind = "Ok"
    /\ output' = get_package_name(
                      TbfHeaderV2(Base(52, <<8192, 0>>), None, None,
                                  Some(output.val), None))
    /\ stage' = "got"
    /\ UNCHANGED <<machine_vars, result, input>>

do_credentials ==
    /\ stage = "input"
    /\ input.tlv = "credentials"
    /\ output' = TbfFooterV2Credentials_try_from(input.b)
    /\ stage' = "converted"
    /\ UNCHANGED <<machine_vars, result, input>>

\* get_format on the decoded credential
do_get_format ==
    /\ stage = "converted"
    /\ input.tlv = "credentials"
    /\ output.kind = "Ok"
    /\ output.val.variant # "Reserved"
    /\ output' = get_format(output.val)
    /\ stage' = "got"
    /\ UNCHANGED <<machine_vars, result, input>>

do_get_command_permissions ==
    /\ stage = "input"
    /\ input.tlv = "permissions_query"
    /\ output' = get_command_permissions(input.header, input.driver_num,
                                         input.offset)
    /\ stage' = "command_permissions"
    /\ UNCHANGED <<machine_vars, result, input>>

do_get_init_function_offset ==
    /\ stage = "input"
    /\ input.tlv = "header"
    /\ output' \in get_init_function_offset(input.header)
    /\ stage' = "init_function_offset"
    /\ UNCHANGED <<machine_vars, result, input>>

do_get_binary_end ==
    /\ stage = "input"
    /\ input.tlv = "header"
    /\ output' = get_binary_end(input.header)
    /\ stage' = "binary_end"
    /\ UNCHANGED <<machine_vars, result, input>>

\* One round of the scan of a flash region: parse_tbf_header_lengths at the
\* current offset; UnableToParse (or fewer than 8 bytes left) stops the
\* scan, InvalidHeader and success advance the offset by total_size.
scan_step ==
    /\ input.tlv = "region"
    /\ stage \in {"input", "scanning"}
    /\ LET offset == IF stage = "input" THEN 0 ELSE output.offset
       IN  IF ~in_range(input.b, offset, offset + 8)
           THEN /\ stage' = "scanned"
                /\ output' = [offset |-> offset, prev |-> offset,
                              last |-> "end"]
           ELSE LET r == parse_tbf_header_lengths(
                             slice(input.b, offset, offset + 8))
                    total == r.total_size[1] + 65536 * r.total_size[2]
                IN  IF r.kind = "UnableToParse"
                    THEN /\ stage' = "scanned"
                         /\ output' = [offset |-> offset, prev |-> offset,
                                       last |-> r.kind]
                    ELSE /\ stage' = "scanning"
                         /\ output' = [offset |-> offset + total,
                                       prev |-> offset, last |-> r.kind]
    /\ UNCHANGED <<machine_vars, result, input>>

\* add, in the build with and in the build without the std feature
do_add ==
    /\ stage = "input"
    /\ input.tlv = "add"
    /\ output' = IF input.std THEN add_std(input.left, input.right)
                 ELSE add_no_std(input.left, input.right)
    /\ stage' = "added"
    /\ UNCHANGED <<machine_vars, result, input>>

TbfNext ==
    \/ do_permissions
    \/ do_storage_permissions
    \/ do_package_name
    \/ do_get_package_name
    \/ do_credentials
    \/ do_get_format
    \/ do_get_command_permissions
    \/ do_get_init_function_offset
    \/ do_get_binary_end
    \/ scan_step
    \/ do_add

TbfSpec == TbfInit /\ [][TbfNext]_vars

----------------------------------------------------------------------------
(* The info command: main.rs. `stage` is the position in run(), `output`   *)
(* the calls made on the interface so far, each with what it returned      *)
(* (1 for true or Ok, 0 for false or an error), `input` the loop variable. *)

\* for i in 0..16
NumAttributes == 16

InfoInit ==
    /\ MachineInit
    /\ stage = "info_open"
    /\ input = 0
    /\ output = <<>>
    /\ result = NoResult

\* run() returns r
info_return(r) ==
    /\ stage' = "info_returned"
    /\ result' = r

\* let mut interface = build_interface(sub_matches)?; interface.open()?;
info_open ==
    /\ stage = "info_open"
    /\ \/ /\ stage' = "info_enter_bootloader"
          /\ output' = <<E("open", 1)>>
          /\ UNCHANGED result
       \/ /\ \E e \in {"CLIError", "NoPortAvailable", "TokioSeriallError"} :
                info_return(Err(e))
          /\ output' = <<E("open", 0)>>
    /\ UNCHANGED <<machine_vars, input>>

\* `if !interface.enter_bootloader().await? {`: where run() goes on r
info_after_enter_bootloader(r) ==
    IF r.kind # "OkBool" THEN "info_returned"
    ELSE IF r.b THEN "info_attributes"
    ELSE "info_prompt"

info_enter_bootloader ==
    /\ stage = "info_enter_bootloader"
    /\ \E r \in {OkBool(TRUE), OkBool(FALSE), Err("TokioSeriallError")} :
          /\ output' = Append(output, E("enter_bootloader", IF r = OkBool(TRUE) THEN 1 ELSE 0))
          /\ IF info_after_enter_bootloader(r) = "info_returned"
             THEN info_return(r)
             ELSE /\ stage' = info_after_enter_bootloader(r)
                  /\ UNCHANGED result
    /\ UNCHANGED <<machine_vars, input>>

\* let _ = stdin().read(&mut [0u8]).unwrap();
info_prompt ==
    /\ stage = "info_prompt"
    /\ \/ /\ stage' = "info_reprobe"
          /\ output' = Append(output, E("read", 1))
          /\ UNCHANGED result
       \/ /\ info_return(Panic)
          /\ output' = Append(output, E("read", 0))
    /\ UNCHANGED <<machine_vars, input>>

\* a run() that goes on to the attributes whatever the second probe says
info_after_reprobe_ignored(isopen) == "info_attributes"

\* `if !interface.bootloader_open().await { return Err(BootloaderNotOpen); }`
info_after_reprobe(isopen) ==
    IF isopen THEN "info_attributes" ELSE "info_returned"

info_reprobe ==
    /\ stage = "info_reprobe"
    /\ \E isopen \in BOOLEAN :
          /\ output' = Append(output, E("bootloader_open", IF isopen THEN 1 ELSE 0))
          /\ IF info_after_reprobe(isopen) = "info_returned"
             THEN info_return(Err("BootloaderNotOpen"))
             ELSE /\ stage' = info_after_reprobe(isopen)
                  /\ UNCHANGED result
    /\ UNCHANGED <<machine_vars, input>>

\* for i in 0..16 { let attribute = interface.get_attribute(i).await?; .. }
\* and the Ok(()) that ends run()
info_get_attribute ==
    /\ stage = "info_attributes"
    /\ IF input < NumAttributes
       THEN \E r \in {OkAttr(<<65>>, <<118>>), Err("IOError"), Err("MalformedResponse"),
                      get_attribute_timeout_result, get_attribute_eof_result, Panic} :
              /\ output' = Append(output, E("get_attribute", input))
              /\ IF r.kind = "OkAttr"
                 THEN /\ input' = input + 1
                      /\ UNCHANGED <<stage, result>>
                 ELSE /\ info_return(r)
                      /\ UNCHANGED input
       ELSE /\ info_return(OkUnit)
            /\ UNCHANGED <<input, output>>
    /\ UNCHANGED machine_vars

InfoNext ==
    \/ info_open
    \/ info_enter_bootloader
    \/ info_prompt
    \/ info_reprobe
    \/ info_get_attribute

InfoSpec == InfoInit /\ [][InfoNext]_vars

----------------------------------------------------------------------------
(* run_terminal: interfaces/serial/virtual_terminal.rs. `stage` is the     *)
(* position of run_terminal, `input` the two spawned tasks (where each is, *)
(* and how many lines and keys went through), `output` the handle that     *)
(* select! saw complete. A task is a tokio task: it runs on the runtime by *)
(* itself, its future (and what the future captured) lives until the task  *)
(* completes, and dropping its JoinHandle detaches it without stopping it. *)

terminal_fixed == <<baud, dtr, rts, op, pc, probe, index, calls, tx, ops, saved,
                    inflight, rx, rx_late, frame, frame_late, wait, quiet, ping_res>>

\* run_terminal is called on the interface that interface.open()? has opened
TerminalInit ==
    /\ stream = "Some"
    /\ baud = baud_rate
    /\ dtr = FALSE
    /\ rts = FALSE
    /\ op = "none"
    /\ pc = "done"
    /\ probe = 0
    /\ index = 0
    /\ calls = 0
    /\ tx = <<>>
    /\ ops = <<>>
    /\ saved = [stream |-> "None", baud |-> 0, dtr |-> FALSE, rts |-> FALSE]
    /\ inflight = <<>>
    /\ rx = <<>>
    /\ rx_late = 0
    /\ frame = <<>>
    /\ frame_late = 0
    /\ wait = "none"
    /\ quiet = TRUE
    /\ ping_res = NoResult
    /\ stage = "rt_start"
    /\ input = [reader |-> "not_spawned", writer |-> "not_spawned", lines |-> 0, keys |-> 0]
    /\ output = "none"
    /\ result = NoResult

\* the strong references to reader_arc: the one of run_terminal, until its
\* Arc::into_inner, and the clone moved into the reader task's future
reader_strong ==
    (IF stage \in {"rt_select", "rt_writer_into_inner", "rt_reader_into_inner"} THEN 1 ELSE 0)
    + (IF input.reader = "next" THEN 1 ELSE 0)

\* the strong references to writer_arc: the one of run_terminal, until its
\* Arc::into_inner, and the upgraded Weak of the writer task while it sends
writer_strong ==
    (IF stage \in {"rt_select", "rt_writer_into_inner"} THEN 1 ELSE 0)
    + (IF input.writer = "send" THEN 1 ELSE 0)

\* the stream is taken, split, and both tasks are spawned
rt_start ==
    /\ stage = "rt_start"
    /\ IF stream = "None"
       THEN /\ stage' = "rt_returned"
            /\ result' = Panic
            /\ UNCHANGED <<stream, input>>
       ELSE /\ stream' = "None"
            /\ input' = [input EXCEPT !.reader = "next", !.writer = "get_key"]
            /\ stage' = "rt_select"
            /\ UNCHANGED result
    /\ UNCHANGED <<terminal_fixed, output>>

\* the tasks run as long as run_terminal has not returned
tasks_running == stage \in {"rt_select", "rt_writer_into_inner", "rt_reader_into_inner"}

\* reader task: `while let Some(line_result) = reader_arc.lock().await.next().await`
\* yields a line, an error (line_result?), the end of the stream, or the
\* flush of stdout panics
reader_next ==
    /\ tasks_running
    /\ input.reader = "next"
    /\ \/ /\ input.lines < MaxLines
          /\ input' = [input EXCEPT !.lines = @ + 1]
       \/ \E end \in {"finished_ok", "finished_err", "panicked"} :
             input' = [input EXCEPT !.reader = end]
    /\ UNCHANGED <<stream, terminal_fixed, stage, output, result>>

\* writer task: get_key().await? gives no key, an error, a panic (todo!()),
\* or a key: then the Weak is upgraded, and the task returns Ok when that fails
writer_get_key ==
    /\ tasks_running
    /\ input.writer = "get_key"
    /\ \/ \E end \in {"finished_err", "panicked"} :
             input' = [input EXCEPT !.writer = end]
       \/ /\ input.keys < MaxKeys
          /\ input' = [input EXCEPT !.writer = IF writer_strong > 0 THEN "send"
                                                ELSE "finished_ok"]
    /\ UNCHANGED <<stream, terminal_fixed, stage, output, result>>

\* writer task: writer.lock().await.send(buffer).await?
writer_send ==
    /\ tasks_running
    /\ input.writer = "send"
    /\ \/ input' = [input EXCEPT !.writer = "get_key", !.keys = @ + 1]
       \/ input' = [input EXCEPT !.writer = "finished_err"]
    /\ UNCHANGED <<stream, terminal_fixed, stage, output, result>>

\* what a JoinHandle yields for a task that has completed
join_result(task) ==
    IF task = "panicked" THEN Err("JoinError")
    ELSE IF task = "finished_err" THEN Err("IOError")
    ELSE OkUnit

\* tokio::select! over the two handles: one that has completed is taken and
\* the other handle is dropped; `join_result?` returns on a JoinError
rt_select ==
    /\ stage = "rt_select"
    /\ \E h \in {"reader", "writer"} :
          LET task == IF h = "reader" THEN input.reader ELSE input.writer
          IN  /\ task \in {"finished_ok", "finished_err", "panicked"}
              /\ output' = h
              /\ result' = join_result(task)
              /\ stage' = IF task = "panicked" THEN "rt_returned"
                           ELSE "rt_writer_into_inner"
    /\ UNCHANGED <<stream, terminal_fixed, input>>

\* let writer = Arc::into_inner(writer_arc).unwrap().into_inner();
rt_writer_into_inner ==
    /\ stage = "rt_writer_into_inner"
    /\ IF writer_strong = 1
       THEN /\ stage' = "rt_reader_into_inner"
            /\ UNCHANGED result
       ELSE /\ stage' = "rt_returned"
            /\ result' = Panic
    /\ UNCHANGED <<stream, terminal_fixed, input, output>>

\* let reader = Arc::into_inner(reader_arc).unwrap().into_inner();
\* self.stream = Some(reader.reunite(writer).unwrap().into_inner()); return result
rt_reader_into_inner ==
    /\ stage = "rt_reader_into_inner"
    /\ IF reader_strong = 1
       THEN /\ stream' = "Some"
            /\ UNCHANGED result
       ELSE /\ result' = Panic
            /\ UNCHANGED stream
    /\ stage' = "rt_returned"
    /\ UNCHANGED <<terminal_fixed, input, output>>

TerminalNext ==
    \/ rt_start
    \/ reader_next
    \/ writer_get_key
    \/ writer_send
    \/ rt_select
    \/ rt_writer_into_inner
    \/ rt_reader_into_inner

TerminalSpec == TerminalInit /\ [][TerminalNext]_vars

----------------------------------------------------------------------------
(* Claims *)

PingFrame == <<ESCAPE_CHAR, COMMAND_PING>>

Pings(log) == SelectSeq(log, LAMBDA e : e.op = "ping")

EbReturned == op = "enter_bootloader" /\ pc = "done"

\* C1: for every byte sequence x, deescape(escape(x)) = x.
C1_RoundTrip == stage = "roundtrip" => output = input

\* C2: when the first probe of enter_bootloader succeeds, enter_bootloader
\* has returned true after exactly one ping, with no configuration call, and
\* the baud rate and both control lines are as they were when it was called.
C2_FastPath ==
    (op = "enter_bootloader" /\ probe = 0 /\ ping_res = OkBool(TRUE)) =>
        /\ pc = "done"
        /\ result = OkBool(TRUE)
        /\ ops = <<E("ping", 0)>>
        /\ tx = <<PingFrame>>
        /\ Port = saved

C2_Witness ==
    /\ EbReturned
    /\ probe = 0
    /\ ping_res = OkBool(TRUE)
    /\ frame = Pong
    /\ saved.baud = 1200

\* C3: a ping that was sent put exactly [0xFC, 0x01] on the wire; it returns
\* true if and only if a frame was received and that frame is exactly
\* [0xFC, 0x11]; after a timeout or any other frame it returns Ok(false).
C3_Ping ==
    (op = "ping" /\ pc = "done" /\ wait \notin {"none", "send_failed"}) =>
        /\ tx = <<PingFrame>>
        /\ (result = OkBool(TRUE)) <=> (wait = "frame" /\ frame = Pong)
        /\ (wait \in {"timeout", "frame"} /\ frame # Pong) => result = OkBool(FALSE)

C3_Witness ==
    /\ op = "ping"
    /\ pc = "done"
    /\ wait = "frame"
    /\ Len(frame) > 2
    /\ SubSeq(frame, 1, 2) = Pong
    /\ result = OkBool(FALSE)

\* C4: when nothing arrives within the timeout, get_attribute returns the
\* Timeout error (no Attribute) and ping returns Ok(false).
C4_TimeoutAsymmetry ==
    (pc = "done" /\ wait = "timeout") =>
        /\ op = "get_attribute" => result = Err("Timeout")
        /\ op = "ping" => result = OkBool(FALSE)

C4_Witness ==
    /\ op = "get_attribute"
    /\ pc = "done"
    /\ wait = "timeout"
    /\ result = Err("Timeout")
    /\ Len(tx) = 2

\* C5: ping returns an error whenever the transport fails during the
\* exchange: the send fails, the receive reports an I/O error, or the
\* receive yields end-of-stream.
C5_PingTransportFailure ==
    (op = "ping" /\ pc = "done" /\ wait \in {"send_failed", "io_error", "eof"}) =>
        result.kind = "Err"

\* C6: when a probe inside enter_bootloader fails with a transport error,
\* enter_bootloader has returned that error and does nothing more.
C6_ProbeErrorPropagates ==
    (op = "enter_bootloader" /\ ping_res.kind = "Err") =>
        pc = "done" /\ result = ping_res

\* C7: the frame an exchange evaluates holds no byte of a response to an
\* earlier exchange that timed out.
C7_LateResponseDiscarded == wait = "frame" => frame_late = 0

\* C8: enter_bootloader on an open stream whose configuration calls succeed
\* makes at most three probes, returns Ok(true) right after the first probe
\* that succeeds and Ok(false) exactly when three probes failed; on a stream
\* that was never opened it returns StreamClosed with nothing sent.
C8_Probes ==
    /\ (op = "enter_bootloader" /\ pc # "done") => ping_res # OkBool(TRUE)
    /\ (EbReturned /\ saved.stream = "None") =>
           result = Err("StreamClosed") /\ tx = <<>> /\ ops = <<>>
    /\ (EbReturned /\ saved.stream = "Some") =>
           /\ Pings(ops) = [k \in 1..(probe + 1) |-> E("ping", k - 1)]
           /\ probe <= 2
           /\ result.kind = "Err" =>
                  result = Err("TokioSeriallError") /\ wait # "none"
           /\ result = OkBool(TRUE) =>
                  ping_res = OkBool(TRUE) /\ ops[Len(ops)] = E("ping", probe)
           /\ result = OkBool(FALSE) => probe = 2
           /\ (result = OkBool(FALSE)) <=>
                  (ping_res # OkBool(TRUE) /\ ops[Len(ops)] = E("ping", 2))

C8_Witness ==
    /\ EbReturned
    /\ result = OkBool(FALSE)
    /\ probe = 2
    /\ Len(tx) = 3

\* C9: every call of ping, get_attribute and enter_bootloader returns,
\* whatever the device does; when every exchange of the call was sent and
\* timed out, ping has returned false, get_attribute the Timeout error and
\* enter_bootloader false after its third probe.
SilentOutcome ==
    (pc = "done" /\ quiet /\ wait = "timeout") =>
        /\ op = "ping" => result = OkBool(FALSE)
        /\ op = "get_attribute" => result = Err("Timeout")
        /\ op = "enter_bootloader" => result = OkBool(FALSE) /\ probe = 2

C9_Returns ==
    /\ (pc # "done") ~> (pc = "done")
    /\ []SilentOutcome

C9_Witness ==
    /\ EbReturned
    /\ quiet
    /\ wait = "timeout"
    /\ probe = 2
    /\ result = OkBool(FALSE)

\* C10: for every byte sequence, parse_raw gives an Attribute or the
\* MalformedResponse error.
C10_ParseRawTotal ==
    stage = "parsed" => result.kind = "OkAttr" \/ result = Err("MalformedResponse")

\* C11: on an input of at least two bytes, parse_raw gives MalformedResponse
\* when byte 0 is not 0xFC, and when byte 0 is 0xFC but byte 1 is not 0x22,
\* whatever the remaining bytes are.
C11_HeaderChecked ==
    (stage = "parsed" /\ Len(input) >= 2
        /\ (input[1] # 252 \/ input[2] # 34))
    => result = Err("MalformedResponse")

C11_Witness ==
    /\ stage = "parsed"
    /\ Len(input) = 13
    /\ input[1] = 252
    /\ input[2] = 17
    /\ SubSeq(input, 3, 13) = <<65, 0, 0, 0, 0, 0, 0, 0, 2, 65, 65>>
    /\ result = Err("MalformedResponse")

RECURSIVE WithoutNul(_)
WithoutNul(s) ==
    IF s = <<>> THEN <<>>
    ELSE IF Len(s) = 1 THEN (IF s[1] = 0 THEN <<>> ELSE s)
    ELSE LET h == Len(s) \div 2
         IN  WithoutNul(SubSeq(s, 1, h)) \o WithoutNul(SubSeq(s, h + 1, Len(s)))

\* [0xFC, 0x22, k0..k7, N, v0..v(N-1)]
WellFormedShape ==
    /\ Len(input) >= 11
    /\ input[1] = 252
    /\ input[2] = 34
    /\ Len(input) = 11 + input[11]

\* C12: for a response [0xFC, 0x22, k0..k7, N, v0..v(N-1)], parse_raw gives
\* the Attribute whose key is bytes 2..10 and whose value is bytes 11..11+N,
\* each with every NUL byte removed, when both are valid UTF-8, and
\* MalformedResponse when either is not.
C12_Decodes ==
    (stage = "parsed" /\ WellFormedShape) =>
        LET key == WithoutNul(SubSeq(input, 3, 10))
            value == WithoutNul(SubSeq(input, 12, Len(input)))
        IN  IF ValidUtf8(key) /\ ValidUtf8(value)
            THEN result = OkAttr(key, value)
            ELSE result = Err("MalformedResponse")

C12_Witness ==
    /\ stage = "parsed"
    /\ WellFormedShape
    /\ input = <<252, 34, 65, 0, 0, 0, 0, 0, 0, 0, 2, 195, 169>>
    /\ result = OkAttr(<<65>>, <<195, 169>>)

\* C13: every Attribute parse_raw returns has a key of at most 8 bytes and
\* a value of at most 245 bytes, for every value of the length byte.
C13_ValueBounded ==
    (stage = "parsed" /\ result.kind = "OkAttr") =>
        Len(result.key) <= 8 /\ Len(result.value) <= 245

\* C14: a Permissions body that declares more than 8 entries, and a
\* StoragePermissions body that declares more than 8 read ids or more than 8
\* modify ids, with the bytes of all declared entries present, fails with
\* TooManyEntries.
C14_TooManyEntries ==
    (stage = "converted" /\ input.cut = 0) =>
        /\ (input.tlv = "permissions" /\ input.declared > 8)
              => (output.kind = "Err" /\ output.err = "TooManyEntries")
        /\ (input.tlv = "storage_permissions"
              /\ (input.reads > 8 \/ input.modifies > 8))
              => (output.kind = "Err" /\ output.err = "TooManyEntries")

\* C16: converting a byte slice v to a package name fails with
\* PackageNameTooLong when v is longer than 64 bytes (valid UTF-8 or not),
\* fails with BadProcessName when v is at most 64 bytes and not valid UTF-8,
\* and otherwise succeeds; get_package_name of a header carrying that name
\* gives exactly the bytes of v.
C16_PackageName ==
    input.tlv = "package_name" =>
        /\ stage = "converted" =>
              IF Len(input.b) > 64
              THEN output = TbfErr("PackageNameTooLong", 0)
              ELSE IF ~ValidUtf8(input.b)
                   THEN output = TbfErr("BadProcessName", 0)
                   ELSE output.kind = "Ok"
        /\ stage = "got" => output = Some(input.b)

C16_Witness ==
    /\ input.tlv = "package_name"
    /\ stage = "got"
    /\ Len(input.b) = 63
    /\ SubSeq(input.b, 1, 3) = <<195, 169, 97>>
    /\ output = Some(input.b)

\* the credential a body of at least four bytes must decode to
C17_Expected(b) ==
    LET code == b[1]
        data == SubSeq(b, 5, Len(b))
        size == CASE code = 0 -> 0 [] code = 1 -> 768 [] code = 2 -> 1024
                  [] code = 3 -> 32 [] code = 4 -> 48 [] code = 5 -> 64
    IN  IF b[2] # 0 \/ b[3] # 0 \/ b[4] # 0 \/ code > 5
        THEN [kind |-> "Err", name |-> "any"]
        ELSE IF Len(data) < size
             THEN [kind |-> "Err", name |-> "NotEnoughFlash"]
        ELSE CASE code = 0 -> [kind |-> "Ok", name |-> "Reserved"]
               [] code = 1 ->
                    [kind |-> "Ok", name |-> "Rsa3072Key",
                     val |-> [variant |-> "Rsa3072Key",
                              public_key |-> SubSeq(data, 1, 384),
                              signature |-> SubSeq(data, 385, 768)]]
               [] code = 2 ->
                    [kind |-> "Ok", name |-> "Rsa4096Key",
                     val |-> [variant |-> "Rsa4096Key",
                              public_key |-> SubSeq(data, 1, 512),
                              signature |-> SubSeq(data, 513, 1024)]]
               [] code = 3 ->
                    [kind |-> "Ok", name |-> "SHA256",
                     val |-> [variant |-> "SHA256",
                              hash |-> SubSeq(data, 1, 32)]]
               [] code = 4 ->
                    [kind |-> "Ok", name |-> "SHA384",
                     val |-> [variant |-> "SHA384",
                              hash |-> SubSeq(data, 1, 48)]]
               [] code = 5 ->
                    [kind |-> "Ok", name |-> "SHA512",
                     val |-> [variant |-> "SHA512",
                              hash |-> SubSeq(data, 1, 64)]]

\* C17: a credentials body is decoded by its 32-bit little-endian format
\* code: 3/4/5 give SHA256/SHA384/SHA512 with the 32/48/64 bytes after the
\* code as digest, 1/2 give Rsa3072Key/Rsa4096Key with the next 384/512
\* bytes as public key and the 384/512 after them as signature, 0 gives
\* Reserved, any other code is an error, too few bytes for the size of the
\* code give NotEnoughFlash, and get_format of the decoded credential names
\* the type of the code.
C17_Credentials ==
    (input.tlv = "credentials" /\ Len(input.b) >= 4) =>
        LET expected == C17_Expected(input.b)
        IN  /\ stage = "converted" =>
                  /\ output.kind = expected.kind
                  /\ expected.name = "NotEnoughFlash"
                        => output = TbfErr("NotEnoughFlash", 0)
                  /\ expected.name = "Reserved"
                        => output.val.variant = "Reserved"
                  /\ (expected.kind = "Ok" /\ expected.name # "Reserved")
                        => output.val = expected.val
            /\ stage = "got" => output = TbfOk(expected.name)

C17_Witness ==
    /\ input.tlv = "credentials"
    /\ stage = "got"
    /\ SubSeq(input.b, 1, 4) = <<2, 0, 0, 0>>
    /\ Len(input.b) = 1030
    /\ output = TbfOk("Rsa4096Key")

\* the recorded entries of the header under query that name its driver
C15_Named ==
    {i \in 1..Len(input.list) :
        input.driver_num =
            <<input.list[i].driver_number[1],
              input.list[i].driver_number[2], 0, 0>>}

\* those of them that are recorded at the offset of the query
C15_Matching ==
    {i \in C15_Named :
        input.offset =
            <<input.list[i].offset[1], input.list[i].offset[2], 0, 0>>}

\* C15: for a V2 header, get_command_permissions(driver, offset) gives
\* NoPermsAtAll when the header has no permissions record, NoPermsThisDriver
\* when none of the recorded entries names the driver (for every driver
\* number, 0 included, and 0 to 8 recorded entries), and Mask(m) when a
\* recorded entry names the driver: m is the allowed_commands of the entry
\* for (driver, offset), and 0 when the driver is recorded at other offsets
\* only.
C15_CommandPermissions ==
    (stage = "command_permissions" /\ input.header.variant = "TbfHeaderV2")
    => IF ~input.header.permissions.some THEN output = NoPermsAtAll
       ELSE IF C15_Named = {} THEN output = NoPermsThisDriver
       ELSE IF C15_Matching = {} THEN output = Mask(u64_zero)
       ELSE \E i \in C15_Matching :
                output = Mask(input.list[i].allowed_commands)

\* C18: for a V2 header with a Main or a Program record,
\* get_init_function_offset is the sum init_fn_offset + header_size
\* (Program's init_fn_offset when both records are present), with no
\* wrap-around and no abort; for a Padding header it is 0.
C18_InitFunctionOffset ==
    stage = "init_function_offset" =>
        IF input.header.variant = "Padding" THEN output = TbfOk(u32_zero)
        ELSE LET init == IF input.header.program.some
                         THEN input.header.program.v.init_fn_offset
                         ELSE input.header.main.v.init_fn_offset
                 lo == init[1] + input.header.base.header_size
             IN  output = TbfOk(<<lo % 65536, init[2] + (lo \div 65536)>>)

\* C19: get_binary_end is the Program record's binary_end_offset when the
\* V2 header has a Program record (with or without a Main record), the
\* total_size of the base when it has none, and 0 for a Padding header.
C19_BinaryEnd ==
    stage = "binary_end" =>
        output = IF input.header.variant = "Padding" THEN <<0, 0>>
                 ELSE IF input.header.program.some
                      THEN input.header.program.v.binary_end_offset
                      ELSE input.header.base.total_size

C19_Witness ==
    /\ stage = "binary_end"
    /\ input.header.variant = "TbfHeaderV2"
    /\ input.header.main.some
    /\ input.header.program.some
    /\ input.header.base.total_size = <<8192, 0>>
    /\ output = <<5836, 0>>

\* C20: in the scan of a flash region, UnableToParse stops the scan and
\* every InvalidHeader(total_size) or successful result advances the offset
\* by total_size, which is strictly positive, so that the offset strictly
\* increases until the scan stops or the region ends.
C20_ScanAdvances ==
    (input.tlv = "region" /\ stage = "scanning") =>
        output.offset > output.prev

\* the positions of the input that are not a 0xFC right after a 0xFC
C21_Kept ==
    {i \in 1..Len(input) :
        ~(i > 1 /\ input[i] = 252 /\ input[i - 1] = 252)}

\* C21: deescape copies its input in order and drops a byte exactly when
\* that byte is 0xFC and the input byte right before it is 0xFC; an input
\* with no two adjacent sentinels is returned unchanged.
C21_Deescape ==
    stage = "deescaped" =>
        /\ Len(output) = Cardinality(C21_Kept)
        /\ \A i \in C21_Kept :
              output[Cardinality({j \in C21_Kept : j <= i})] = input[i]
        /\ Cardinality(C21_Kept) = Len(input) => output = input

C21_Witness ==
    /\ stage = "deescaped"
    /\ input = <<252, 17, 252, 252>>
    /\ output = <<252, 17, 252>>

\* C22: add(left, right) is left + right in the build with the std feature
\* and in the build without it.
C22_Add == stage = "added" => output = input.left + input.right

\* the operations of an enter_bootloader that uses both methods
C23_Full ==
    << E("ping", 0), E("baud", 1200), E("sleep", 1000), E("ping", 1),
       E("baud", baud_rate), E("sleep", 1000), E("dtr", 1), E("rts", 1),
       E("sleep", 100), E("dtr", 0), E("sleep", 500), E("rts", 0), E("ping", 2) >>

\* C23: an enter_bootloader whose first probe fails performs, in this order:
\* baud 1200, wait 1000 ms, probe; and when that probe fails: baud back to
\* the configured rate, wait 1000 ms, DTR on, RTS on, wait 100 ms, DTR off,
\* wait 500 ms, RTS off, probe. Whatever it has done so far is the beginning
\* of that sequence, ended at most by a configuration call that failed, and
\* the last probe is sent with DTR and RTS both released.
C23_Order ==
    (op = "enter_bootloader" /\ ops # <<>>) =>
        LET n == Len(ops)
            failed == ops[n] = E("config_failed", 0)
            m == IF failed THEN n - 1 ELSE n
        IN  /\ m <= Len(C23_Full)
            /\ SubSeq(ops, 1, m) = SubSeq(C23_Full, 1, m)
            /\ failed => /\ m < Len(C23_Full)
                         /\ C23_Full[m + 1].op \in {"baud", "dtr", "rts"}
            /\ (pc = "done" /\ result = OkBool(FALSE)) => ops = C23_Full
            /\ probe = 2 => ~dtr /\ ~rts
            /\ (probe = 1 /\ ~failed /\ m = 4) => baud = 1200

C23_Witness == EbReturned /\ result = OkBool(FALSE) /\ ops = C23_Full /\ ~dtr /\ ~rts

\* what a get_attribute(index) writes when both of its sends succeed
C24_Wire ==
    << <<0, 252, 5>>, <<index, 252, 20>> >>

\* C24: get_attribute(index) writes the sync frame 00 FC 05 and then the
\* request index FC 14, and nothing else; it reads nothing and waits for
\* nothing before both are written; when the sync frame cannot be written
\* the request is not written; and once the request is out it takes one
\* frame, from which alone its result is made.
C24_SyncThenRequest ==
    (op = "get_attribute" /\ saved.stream = "Some") =>
        /\ pc = "sync_send" => tx = <<>>
        /\ pc = "attr_send" => tx = SubSeq(C24_Wire, 1, 1)
        /\ pc = "attr_wait" => tx = C24_Wire
        /\ pc \in {"sync_send", "attr_send"} => frame = <<>> /\ wait = "none"
        /\ pc = "done" =>
              /\ tx \in {<<>>, SubSeq(C24_Wire, 1, 1), C24_Wire}
              /\ wait = "send_failed" <=> tx # C24_Wire
              /\ tx # C24_Wire => frame = <<>> /\ result = Err("IOError")
              /\ wait = "frame" <=> frame # <<>>
              /\ wait = "frame" => result = get_attribute_frame_result(frame)

C24_Witness ==
    /\ op = "get_attribute"
    /\ pc = "done"
    /\ index = 1
    /\ tx = << <<0, 252, 5>>, <<1, 252, 20>> >>
    /\ frame = AttrReply
    /\ result = OkAttr(<<65>>, <<118>>)

C25_Calls(name) == SelectSeq(output, LAMBDA e : e.op = name)

\* C25: the info command asks for no attribute unless enter_bootloader
\* returned true or the one probe after the prompt succeeded; when
\* enter_bootloader returned false and that probe fails it returns
\* BootloaderNotOpen without probing again; otherwise it asks for the
\* attributes 0, 1, .. 15 in this order and stops at the first one that
\* fails, returning its error.
C25_Info ==
    LET attrs == C25_Calls("get_attribute")
        probes == C25_Calls("bootloader_open")
        n == Len(attrs)
        calls_made == Len(output)
    IN  /\ n <= NumAttributes
        /\ \A k \in 1..n : attrs[k] = E("get_attribute", k - 1)
        /\ Len(probes) <= 1
        /\ Len(C25_Calls("enter_bootloader")) <= 1
        /\ n > 0 =>
              \/ /\ output[2] = E("enter_bootloader", 1)
                 /\ calls_made = 2 + n
              \/ /\ output[2] = E("enter_bootloader", 0)
                 /\ output[4] = E("bootloader_open", 1)
                 /\ calls_made = 4 + n
        /\ probes = <<E("bootloader_open", 0)>> =>
              /\ output[2] = E("enter_bootloader", 0)
              /\ calls_made = 4
              /\ stage = "info_returned"
              /\ result = Err("BootloaderNotOpen")
        /\ probes # <<>> => output[2] = E("enter_bootloader", 0)
        /\ (stage = "info_returned" /\ result = OkUnit) => n = NumAttributes
        /\ (stage = "info_returned" /\ n > 0 /\ result # OkUnit) => input = n - 1
        /\ stage = "info_attributes" => input = n

C25_Witness ==
    /\ stage = "info_returned"
    /\ result = OkUnit
    /\ output[4] = E("bootloader_open", 1)
    /\ Len(output) = 4 + NumAttributes

\* C26: in every interleaving of the reader task, the writer task and the
\* select, once either join handle has completed the other task is finished
\* or cancelled and holds no strong reference, so that both Arc::into_inner
\* give the halves, and self.stream is Some again when run_terminal returns.
C26_Reunited ==
    /\ stage \in {"rt_writer_into_inner", "rt_reader_into_inner"} =>
          /\ input.reader \notin {"next"}
          /\ input.writer \notin {"get_key", "send"}
          /\ reader_strong = 1
    /\ stage = "rt_writer_into_inner" => writer_strong = 1
    /\ stage = "rt_returned" => stream = "Some" /\ result # Panic

\* C27: the frame that ping compares with the PONG frame and that
\* get_attribute hands to parse_raw is the de-escaped form of the bytes
\* received.
C27_FrameDeescaped == stage = "decoded" => output = deescape(input)

\* C28: a Permissions body that converts has as many entries as it declares,
\* at most 8, and they are the entries of the body in their order; a
\* StoragePermissions body that converts has the declared numbers of read
\* and modify ids, at most 8 each, and they are the ids of the body in their
\* order, the modify ids those that follow the last read id; a body that
\* declares more than 8 never converts.
C28_NotTruncated ==
    (stage = "converted" /\ input.tlv \in {"permissions", "storage_permissions"}) =>
        IF input.tlv = "permissions"
        THEN /\ input.declared > PERMISSIONS_L => output.kind = "Err"
             /\ output.kind = "Ok" =>
                   /\ output.val.length = input.declared
                   /\ output.val.length <= PERMISSIONS_L
                   /\ Len(output.val.perms) = PERMISSIONS_L
                   /\ PermissionsBody(SubSeq(output.val.perms, 1, output.val.length))
                        = input.b
        ELSE /\ (input.reads > NUM_STORAGE_PERMISSIONS
                   \/ input.modifies > NUM_STORAGE_PERMISSIONS) => output.kind = "Err"
             /\ output.kind = "Ok" =>
                   /\ output.val.read_length = input.reads
                   /\ output.val.modify_length = input.modifies
                   /\ output.val.read_length <= NUM_STORAGE_PERMISSIONS
                   /\ output.val.modify_length <= NUM_STORAGE_PERMISSIONS
                   /\ \A k \in 1..input.reads : output.val.read_ids[k] = to_u32(k)
                   /\ \A k \in 1..input.modifies : output.val.modify_ids[k] = to_u32(k)
                   /\ encode_ids(input.modifies)
                        = SubSeq(input.b, 6 + 4 * input.reads + 2 + 1, Len(input.b))

C28_Witness ==
    /\ stage = "converted"
    /\ input.tlv = "permissions"
    /\ input.declared = PERMISSIONS_L
    /\ output.kind = "Ok"
    /\ output.val.length = PERMISSIONS_L
    /\ output.val.perms[PERMISSIONS_L] # output.val.perms[1]

\* C29: whenever enter_bootloader returns Ok, true or false and by whatever
\* method, the port is at the configured baud rate.
C29_BaudRestored ==
    (EbReturned /\ result.kind = "OkBool") => baud = baud_rate

\* C30: get_attribute returns the Attribute of the whole response however
\* the transport splits its bytes into reads: on a port that carried nothing
\* before, a call that took a frame from a device answering with the
\* attribute response returns that attribute, never the decoding of a part.
C30_WholeResponse ==
    ( /\ op = "get_attribute"
      /\ pc = "done"
      /\ calls = 1
      /\ wait = "frame"
      /\ frame = SubSeq(AttrReply, 1, Len(frame)) ) =>
        /\ frame = AttrReply
        /\ result = OkAttr(<<65>>, <<118>>)

====
